---------------------------- MODULE Spec2Model ----------------------------
(***************************************************************************)
(* ST95xx SPI EEPROM driver (STM32_EEPROM_SPI.c).                          *)
(*                                                                         *)
(* The driver is modelled statement by statement: pc is the call stack,    *)
(* each entry the source line the function on that level will execute     *)
(* next ("L72" is line 72 of STM32_EEPROM_SPI.c).  The HAL (SPI transfer   *)
(* results, the SPI handle's State) and the EEPROM chip behind the bus are *)
(* the environment.                                                        *)
(***************************************************************************)
EXTENDS Integers, Sequences, FiniteSets, TLC

(* ------------------------------ bounds --------------------------------- *)

\* Page sizes 1..MaxPage are configured through EEPROM_INIT.
MaxPage == 3

\* Requests start at the low addresses {0, P-1, P, P+7} or at one of the
\* last MaxBack+1 addresses of the 16-bit address space.
MaxBack == 2

\* The page size for which progress and the use by two callers are checked.
LivePage == 2

\* While a second caller runs concurrently, the first caller's requests are
\* those of at most ShortLen bytes at address 0.
ShortLen == 1

(* --------------------------- program constants ------------------------- *)

\* uint16_t WriteAddr / NumByteToWrite / NumOfPage ...: arithmetic is mod 2^16.
UINT16 == 65536

\* "Make 5 attemtps to write the data": for (uint8_t i = 0; i < 5; i++)
TxAttempts == 5

HAL_OK      == "HAL_OK"
HAL_ERROR   == "HAL_ERROR"
HAL_BUSY    == "HAL_BUSY"
HAL_TIMEOUT == "HAL_TIMEOUT"
HAL_StatusTypeDef == {HAL_OK, HAL_ERROR, HAL_BUSY, HAL_TIMEOUT}

HAL_SPI_STATE_RESET == "HAL_SPI_STATE_RESET"
HAL_SPI_STATE_READY == "HAL_SPI_STATE_READY"
HAL_SPI_STATE_BUSY  == "HAL_SPI_STATE_BUSY"

EEPROM_STATUS_PENDING  == "EEPROM_STATUS_PENDING"
EEPROM_STATUS_COMPLETE == "EEPROM_STATUS_COMPLETE"
EEPROM_STATUS_ERROR    == "EEPROM_STATUS_ERROR"

\* The device's opcodes, as the driver names them.
EEPROM_WREN  == "EEPROM_WREN"
EEPROM_WRDI  == "EEPROM_WRDI"
EEPROM_RDSR  == "EEPROM_RDSR"
EEPROM_READ  == "EEPROM_READ"
EEPROM_WRITE == "EEPROM_WRITE"
EEPROM_WRSR  == "EEPROM_WRSR"

NONE == "NONE"

VARIABLES
    PAGESIZE,      \* eeprom_h->EEPROM_PAGESIZE
    spiState,      \* eeprom_h->SPI->State
    cs,            \* chip-select pin: "high" (deselected) or "low" (selected)
    pc,            \* call stack, innermost first; <<>> when no call is active
    wb,            \* locals of EEPROM_SPI_WriteBuffer
    wp,            \* parameters and locals of EEPROM_SPI_WritePage
    rb,            \* parameters of EEPROM_SPI_ReadBuffer
    instruction,   \* argument of EEPROM_SPI_SendInstruction
    sEEstatus,     \* sEEstatus[0] of EEPROM_SPI_WaitStandbyState
    retval,        \* value returned by the function that returned last
    out,           \* the caller's buffer filled by EEPROM_SPI_ReadBuffer
    dev,           \* the EEPROM chip: memory, WIP and WEL bits, bytes of the
                   \* current chip-select window, the windows seen so far
    req,           \* the caller's request: [op, A, L]
    result,        \* what the caller's last call returned
    calls,         \* history: the EEPROM_SPI_WritePage calls made so far
    rets,          \* history: what each of them returned
    txLog,         \* history: results of the payload transmits of this call
    allOk,         \* history: no HAL transfer has reported a non-OK result
    lastHal,       \* history: what the last HAL transfer reported
    nStandby,      \* history: standby-waits finished
    nWrdi,         \* history: write-disable commands sent
    mode,          \* "serial": the callers take turns; "concurrent": they do not
    second         \* a second caller of the driver on the same handle

drvVars  == <<wb, wp, rb, instruction, sEEstatus, retval, out>>
hwVars   == <<spiState, cs, dev>>
histVars == <<calls, rets, txLog, allOk, lastHal, nStandby, nWrdi>>
shareVars == <<mode, second>>
vars == <<PAGESIZE, pc, req, result, drvVars, hwVars, histVars, shareVars>>

(* ------------------------------ helpers -------------------------------- *)

At(l)      == pc # <<>> /\ Head(pc) = l
Goto(l)    == pc' = <<l>> \o Tail(pc)
\* call: continue at `entry`, and at `back` once the callee has returned
Call(entry, back) == pc' = <<entry, back>> \o Tail(pc)
Return     == pc' = Tail(pc)

\* The second caller is not inside the driver.
SecondOut == second.pc \in {"idle", "done"}

\* A call may begin: callers that serialize their calls wait for each other.
MayEnter == mode = "serial" => SecondOut

\* The caller's source buffer: byte k (0-based) holds the token k+1.
Buf(off, n) == [j \in 1..n |-> off + j]


(* ------------------- environment: the EEPROM chip ---------------------- *)

Erased == 0      \* content of a memory cell that was never programmed
Junk   == -1     \* what the bus carries when the chip does not drive it

\* Chip-select falls: a new command window begins.
DevSelect(d) == [d EXCEPT !.win = <<>>]

\* Bytes clocked into the chip inside the current window.
DevClock(d, bytes) == [d EXCEPT !.win = @ \o bytes]

\* Address of the i-th (0-based) data byte of a page program that starts at
\* addr: the low address bits roll over inside the page.
PageTarget(P, addr, i) ==
    (((addr \div P) * P) + (((addr % P) + i) % P)) % UINT16

\* Memory after programming `data` from addr; a later byte landing on the same
\* cell replaces the earlier one.
PageProgram(mem, P, addr, data) ==
    LET n == Len(data)
        T == {PageTarget(P, addr, i - 1) : i \in 1..n}
        last(x) == CHOOSE i \in 1..n :
                      /\ PageTarget(P, addr, i - 1) = x
                      /\ \A j \in 1..n : PageTarget(P, addr, j - 1) = x => j <= i
    IN  [x \in (DOMAIN mem) \cup T |-> IF x \in T THEN data[last(x)] ELSE mem[x]]

\* Chip-select rises: the window is closed and the chip executes its command.
\* While a write cycle is in progress it accepts nothing but status reads.  A
\* write to the status register starts a write cycle like a page program does.
DevDeselect(d, P) ==
    LET w    == d.win
        idle == [d EXCEPT !.win = <<>>, !.log = Append(@, w)]
    IN  IF w = <<>> \/ d.wip THEN idle
        ELSE IF w = <<EEPROM_WREN>> THEN [idle EXCEPT !.wel = TRUE]
        ELSE IF w = <<EEPROM_WRDI>> THEN [idle EXCEPT !.wel = FALSE]
        ELSE IF w[1] = EEPROM_WRITE /\ Len(w) > 3 /\ d.wel
             THEN [idle EXCEPT !.mem = PageProgram(d.mem, P, (w[2] * 256) + w[3],
                                                   SubSeq(w, 4, Len(w))),
                               !.wip = TRUE]
        ELSE IF w[1] = EEPROM_WRSR /\ Len(w) = 2 /\ d.wel
             THEN [idle EXCEPT !.wip = TRUE]
        ELSE idle

\* The status register: bit 0 is WIP, bit 1 is WEL.
DevStatus(d) == (IF d.wip THEN 1 ELSE 0) + (IF d.wel THEN 2 ELSE 0)

MemAt(mem, a) == IF a \in DOMAIN mem THEN mem[a] ELSE Erased

\* The n bytes the chip drives while the master receives.
DevRead(d, n) ==
    IF cs = "low" /\ d.win = <<EEPROM_RDSR>> THEN [j \in 1..n |-> DevStatus(d)]
    ELSE IF cs = "low" /\ Len(d.win) = 3 /\ d.win[1] = EEPROM_READ /\ ~d.wip
         THEN [j \in 1..n |-> MemAt(d.mem, ((d.win[2] * 256) + d.win[3] + j - 1) % UINT16)]
    ELSE [j \in 1..n |-> Junk]

\* The chip's internal write cycle ends: WIP and WEL are reset.
DevWriteCycleDone ==
    /\ dev.wip
    /\ dev' = [dev EXCEPT !.wip = FALSE, !.wel = FALSE]
    /\ UNCHANGED <<PAGESIZE, shareVars, pc, req, result, drvVars, spiState, cs, histVars>>

(* ---------------------- environment: the HAL --------------------------- *)

\* How many of n bytes reached the wire when a transmit ended with st: all of
\* them after HAL_OK, none after HAL_BUSY (the transfer was never started), and
\* none or all after HAL_ERROR and HAL_TIMEOUT (the failure is reported before
\* the first byte or after the last one).
Delivered(st, n) ==
    IF st = HAL_OK THEN {n} ELSE IF st = HAL_BUSY THEN {0} ELSE {0, n}

\* The handle becomes ready (the peripheral is initialised, or a transfer
\* started elsewhere has finished).
HAL_Ready ==
    /\ spiState # HAL_SPI_STATE_READY
    /\ spiState' = HAL_SPI_STATE_READY
    /\ UNCHANGED <<PAGESIZE, shareVars, pc, req, result, drvVars, cs, dev, histVars>>

(* ----------------------------- pins ------------------------------------ *)

\* Variant: the pin is written GPIO_PIN_SET, as in EEPROM_CS_HIGH.
EEPROM_CS_LOW_Set ==
    /\ cs' = "high"
    /\ dev' = IF cs = "low" THEN DevDeselect(dev, PAGESIZE) ELSE dev

EEPROM_CS_LOW ==
    /\ cs' = "low"
    /\ dev' = IF cs = "high" THEN DevSelect(dev) ELSE dev

\* Variant: the pin is written GPIO_PIN_RESET, as in EEPROM_CS_LOW.
EEPROM_CS_HIGH_Reset ==
    /\ cs' = "low"
    /\ dev' = IF cs = "high" THEN DevSelect(dev) ELSE dev

EEPROM_CS_HIGH ==
    /\ cs' = "high"
    /\ dev' = IF cs = "low" THEN DevDeselect(dev, PAGESIZE) ELSE dev

(* ------------------- EEPROM_SPI_WriteBuffer ----------------------------- *)

U16(x) == x % UINT16

\* Locals of a function that is not running.
wbIdle == [pBuffer |-> 0, WriteAddr |-> 0, NumByteToWrite |-> 0, NumOfPage |-> 0,
           NumOfSingle |-> 0, Addr |-> 0, count |-> 0, temp |-> 0,
           sEE_DataNum |-> 0, pageWriteStatus |-> EEPROM_STATUS_PENDING]
wpIdle == [pBuffer |-> 0, WriteAddr |-> 0, NumByteToWrite |-> 0, i |-> 0,
           spiTransmitStatus |-> NONE]
rbIdle == [ReadAddr |-> 0, NumByteToRead |-> 0]

\* Variant: count = PAGESIZE, the offset inside the page forgotten.
WriteBuffer_Locals_FullCount(P, A, L) ==
    [pBuffer |-> 0, WriteAddr |-> A, NumByteToWrite |-> L,
     NumOfPage |-> L \div P, NumOfSingle |-> L % P,
     Addr |-> A % P, count |-> U16(P), temp |-> 0,
     sEE_DataNum |-> 0, pageWriteStatus |-> EEPROM_STATUS_PENDING]

\* Lines 108-116: the locals after the four divisions.  pBuffer is the offset
\* of the pointer into the caller's buffer.
WriteBuffer_Locals(P, A, L) ==
    [pBuffer |-> 0, WriteAddr |-> A, NumByteToWrite |-> L,
     NumOfPage |-> L \div P, NumOfSingle |-> L % P,
     Addr |-> A % P, count |-> U16(P - (A % P)), temp |-> 0,
     sEE_DataNum |-> 0, pageWriteStatus |-> EEPROM_STATUS_PENDING]

\* Lines 118-119, 147-149, 171: the branch taken, named by its first line.
WriteBuffer_Branch(w) ==
    IF w.Addr = 0
    THEN IF w.NumOfPage = 0 THEN "L120" ELSE "L128"
    ELSE IF w.NumOfPage = 0
         THEN IF w.NumOfSingle > w.count THEN "L150" ELSE "L164"
         ELSE "L172"

\* The blocks that end in pageWriteStatus = EEPROM_SPI_WritePage(...).
WriteBuffer_CallSites ==
    {"L120", "L129", "L140", "L150", "L161", "L164", "L172", "L188", "L201"}

\* The assignments of a block up to its call of EEPROM_SPI_WritePage.
WriteBuffer_Prepare(l, w, P) ==
    CASE l = "L120" -> [w EXCEPT !.sEE_DataNum = w.NumByteToWrite]
      [] l = "L129" -> [w EXCEPT !.sEE_DataNum = U16(P)]
      [] l = "L140" -> [w EXCEPT !.sEE_DataNum = w.NumOfSingle]
      [] l = "L150" -> [w EXCEPT !.temp = U16(w.NumOfSingle - w.count),
                                 !.sEE_DataNum = w.count]
      [] l = "L161" -> [w EXCEPT !.sEE_DataNum = w.temp]
      [] l = "L164" -> [w EXCEPT !.sEE_DataNum = w.NumByteToWrite]
      [] l = "L172" -> LET n == U16(w.NumByteToWrite - w.count)
                       IN  [w EXCEPT !.NumByteToWrite = n,
                                     !.NumOfPage = n \div P,
                                     !.NumOfSingle = n % P,
                                     !.sEE_DataNum = w.count]
      [] l = "L188" -> [w EXCEPT !.sEE_DataNum = U16(P)]
      [] l = "L201" -> [w EXCEPT !.sEE_DataNum = w.NumOfSingle]

\* The line that tests the status returned to a block's call.
WriteBuffer_CheckOf(l) ==
    CASE l = "L120" -> "L123" [] l = "L129" -> "L132" [] l = "L140" -> "L143"
      [] l = "L150" -> "L154" [] l = "L161" -> "L168" [] l = "L164" -> "L168"
      [] l = "L172" -> "L180" [] l = "L188" -> "L192" [] l = "L201" -> "L205"

WriteBuffer_Checks ==
    {"L123", "L132", "L143", "L154", "L168", "L180", "L192", "L205"}

\* Variant: the status is compared with the wrong enumerator.
WriteBuffer_Aborts_Pending(status) == status = EEPROM_STATUS_PENDING

\* if (pageWriteStatus != EEPROM_STATUS_COMPLETE) return pageWriteStatus;
WriteBuffer_Aborts(status) == status # EEPROM_STATUS_COMPLETE

\* Variant: pBuffer += ... is missing, only WriteAddr advances.
WriteBuffer_Advance_NoBuf(l, w, P) ==
    LET step(n) == [w EXCEPT !.WriteAddr = U16(w.WriteAddr + n)]
    IN  CASE l = "L123" -> [w |-> w, next |-> "L212"]
          [] l = "L132" -> [w |-> step(P), next |-> "L128"]
          [] l = "L143" -> [w |-> w, next |-> "L212"]
          [] l = "L154" -> [w |-> step(w.count), next |-> "L161"]
          [] l = "L168" -> [w |-> w, next |-> "L212"]
          [] l = "L180" -> [w |-> step(w.count), next |-> "L187"]
          [] l = "L192" -> [w |-> step(P), next |-> "L187"]
          [] l = "L205" -> [w |-> w, next |-> "L212"]

\* What follows a check that did not return: the pointer updates and the next
\* line.
WriteBuffer_Advance(l, w, P) ==
    LET step(n) == [w EXCEPT !.WriteAddr = U16(w.WriteAddr + n),
                             !.pBuffer = w.pBuffer + n]
    IN  CASE l = "L123" -> [w |-> w, next |-> "L212"]
          [] l = "L132" -> [w |-> step(P), next |-> "L128"]
          [] l = "L143" -> [w |-> w, next |-> "L212"]
          [] l = "L154" -> [w |-> step(w.count), next |-> "L161"]
          [] l = "L168" -> [w |-> w, next |-> "L212"]
          [] l = "L180" -> [w |-> step(w.count), next |-> "L187"]
          [] l = "L192" -> [w |-> step(P), next |-> "L187"]
          [] l = "L205" -> [w |-> w, next |-> "L212"]

\* while (NumOfPage--): the line after the test, at lines 128 and 187.
WriteBuffer_While(l, w) ==
    IF w.NumOfPage # 0
    THEN (IF l = "L128" THEN "L129" ELSE "L188")
    ELSE (IF l = "L128" THEN "L140" ELSE "L200")

\* Line 200: if (NumOfSingle != 0)
WriteBuffer_Tail(w) == IF w.NumOfSingle # 0 THEN "L201" ELSE "L212"

EEPROM_SPI_WriteBuffer ==
    \/ \E l \in WriteBuffer_CallSites :
          /\ At(l)
          /\ LET w == WriteBuffer_Prepare(l, wb, PAGESIZE)
             IN  /\ wb' = w
                 /\ wp' = [pBuffer |-> w.pBuffer, WriteAddr |-> w.WriteAddr,
                           NumByteToWrite |-> w.sEE_DataNum, i |-> 0,
                           spiTransmitStatus |-> NONE]
                 /\ calls' = Append(calls, [addr |-> w.WriteAddr,
                                            len |-> w.sEE_DataNum,
                                            buf |-> w.pBuffer])
          /\ Call("L48", WriteBuffer_CheckOf(l))
          /\ txLog' = <<>>
          /\ UNCHANGED <<PAGESIZE, shareVars, req, result, rb, instruction, sEEstatus, retval,
                         out, hwVars, rets, allOk, lastHal, nStandby, nWrdi>>
    \/ \E l \in WriteBuffer_Checks :
          /\ At(l)
          /\ IF WriteBuffer_Aborts(retval)
             THEN /\ Return
                  /\ result' = retval
                  /\ wb' = wbIdle
             ELSE /\ Goto(WriteBuffer_Advance(l, wb, PAGESIZE).next)
                  /\ wb' = [WriteBuffer_Advance(l, wb, PAGESIZE).w
                              EXCEPT !.pageWriteStatus = retval]
                  /\ UNCHANGED result
          /\ UNCHANGED <<PAGESIZE, shareVars, req, wp, rb, instruction, sEEstatus, retval,
                         out, hwVars, histVars>>
    \/ \E l \in {"L128", "L187"} :
          /\ At(l)
          /\ Goto(WriteBuffer_While(l, wb))
          /\ wb' = [wb EXCEPT !.NumOfPage = U16(wb.NumOfPage - 1)]
          /\ UNCHANGED <<PAGESIZE, shareVars, req, result, wp, rb, instruction, sEEstatus,
                         retval, out, hwVars, histVars>>
    \/ /\ At("L200")
       /\ Goto(WriteBuffer_Tail(wb))
       /\ UNCHANGED <<PAGESIZE, shareVars, req, result, drvVars, hwVars, histVars>>
    \/ /\ At("L212")
       /\ Return
       /\ result' = EEPROM_STATUS_COMPLETE
       /\ wb' = wbIdle
       /\ UNCHANGED <<PAGESIZE, shareVars, req, wp, rb, instruction, sEEstatus, retval,
                      out, hwVars, histVars>>

(* ------------------------ HAL transfers -------------------------------- *)

\* HAL_SPI_Transmit ended with st after k of the bytes went out; the chip sees
\* them when it is selected.
HAL_SPI_Transmit(bytes, st, k) ==
    /\ dev' = IF cs = "low" THEN DevClock(dev, SubSeq(bytes, 1, k)) ELSE dev
    /\ allOk' = (allOk /\ st = HAL_OK)
    /\ lastHal' = st

\* HAL_SPI_Receive ended with st: the chip is left as it was.
HAL_SPI_Receive(st) ==
    /\ allOk' = (allOk /\ st = HAL_OK)
    /\ lastHal' = st
    /\ UNCHANGED dev

(* -------------------- EEPROM_SPI_SendInstruction ------------------------ *)

\* Line 393: while (eeprom_h->SPI->State == HAL_SPI_STATE_RESET)
SendInstruction_Waits(state) == state = HAL_SPI_STATE_RESET

\* Variant: only a hard error is taken for a failure.
SendInstruction_Fails_HardOnly(st) == st = HAL_ERROR

\* Line 397: if (HAL_SPI_Transmit(...) != HAL_OK)
SendInstruction_Fails(st) == st # HAL_OK

\* Error_Handler(): the application's fatal handler; it does not return.
Error_Handler == pc' = <<"Error_Handler">> \o pc

EEPROM_SPI_SendInstruction ==
    \/ /\ At("L393")
       /\ IF SendInstruction_Waits(spiState) THEN UNCHANGED pc ELSE Goto("L397")
       /\ UNCHANGED <<PAGESIZE, shareVars, req, result, drvVars, hwVars, histVars>>
    \/ /\ At("L397")
       /\ \E st \in HAL_StatusTypeDef :
             /\ HAL_SPI_Transmit(instruction, st,
                                 IF st = HAL_OK THEN Len(instruction) ELSE 0)
             /\ IF SendInstruction_Fails(st) THEN Error_Handler ELSE Return
       /\ UNCHANGED <<PAGESIZE, shareVars, req, result, drvVars, spiState, cs,
                      calls, rets, txLog, nStandby, nWrdi>>

(* ---------------- sEE_WriteEnable, sEE_WriteDisable --------------------- *)

sEE_WriteEnable ==
    \/ /\ At("L294")
       /\ EEPROM_CS_LOW
       /\ Goto("L298")
       /\ UNCHANGED <<PAGESIZE, shareVars, req, result, drvVars, spiState, histVars>>
    \/ /\ At("L298")
       /\ instruction' = <<EEPROM_WREN>>
       /\ Call("L393", "L301")
       /\ UNCHANGED <<PAGESIZE, shareVars, req, result, wb, wp, rb, sEEstatus, retval, out,
                      hwVars, histVars>>
    \/ /\ At("L301")
       /\ EEPROM_CS_HIGH
       /\ Return
       /\ UNCHANGED <<PAGESIZE, shareVars, req, result, drvVars, spiState, histVars>>

sEE_WriteDisable ==
    \/ /\ At("L312")
       /\ EEPROM_CS_LOW
       /\ Goto("L317")
       /\ UNCHANGED <<PAGESIZE, shareVars, req, result, drvVars, spiState, histVars>>
    \/ /\ At("L317")
       /\ instruction' = <<EEPROM_WRDI>>
       /\ Call("L393", "L320")
       /\ UNCHANGED <<PAGESIZE, shareVars, req, result, wb, wp, rb, sEEstatus, retval, out,
                      hwVars, histVars>>
    \/ /\ At("L320")
       /\ EEPROM_CS_HIGH
       /\ Return
       /\ nWrdi' = nWrdi + 1
       /\ UNCHANGED <<PAGESIZE, shareVars, req, result, drvVars, spiState,
                      calls, rets, txLog, allOk, lastHal, nStandby>>

(* ---------------------- sEE_WriteStatusRegister ------------------------- *)

\* Lines 330-333: command[0] = EEPROM_WRSR; command[1] = regval;
WriteStatusRegister_Command(regval) == <<EEPROM_WRSR, regval % 256>>

sEE_WriteStatusRegister ==
    \/ /\ At("L336")
       /\ Call("L294", "L339")
       /\ UNCHANGED <<PAGESIZE, shareVars, req, result, drvVars, hwVars, histVars>>
    \/ /\ At("L339")
       /\ EEPROM_CS_LOW
       /\ Goto("L343")
       /\ UNCHANGED <<PAGESIZE, shareVars, req, result, drvVars, spiState, histVars>>
    \/ /\ At("L343")
       /\ instruction' = WriteStatusRegister_Command(req.A)
       /\ Call("L393", "L346")
       /\ UNCHANGED <<PAGESIZE, shareVars, req, result, wb, wp, rb, sEEstatus, retval, out,
                      hwVars, histVars>>
    \/ /\ At("L346")
       /\ EEPROM_CS_HIGH
       /\ Goto("L348")
       /\ UNCHANGED <<PAGESIZE, shareVars, req, result, drvVars, spiState, histVars>>
    \/ /\ At("L348")
       /\ Call("L312", "L349")
       /\ UNCHANGED <<PAGESIZE, shareVars, req, result, drvVars, hwVars, histVars>>
    \/ /\ At("L349")
       /\ Return
       /\ UNCHANGED <<PAGESIZE, shareVars, req, result, drvVars, hwVars, histVars>>

(* ------------------- EEPROM_SPI_WaitStandbyState ------------------------ *)

\* Variant: the whole status byte is tested, not the WIP bit alone.
WaitStandby_Again_AnyBit(status) == status # 0

\* Line 378: while ((sEEstatus[0] & EEPROM_WIP_FLAG) == SET); WIP is bit 0.
WaitStandby_Again(status) == status % 2 = 1

EEPROM_SPI_WaitStandbyState ==
    \/ /\ At("L360")
       /\ sEEstatus' = 0
       /\ EEPROM_CS_LOW
       /\ Goto("L367")
       /\ UNCHANGED <<PAGESIZE, shareVars, req, result, wb, wp, rb, instruction, retval, out,
                      spiState, histVars>>
    \/ /\ At("L367")
       /\ instruction' = <<EEPROM_RDSR>>
       /\ Call("L393", "L372")
       /\ UNCHANGED <<PAGESIZE, shareVars, req, result, wb, wp, rb, sEEstatus, retval, out,
                      hwVars, histVars>>
    \/ /\ At("L372")
       /\ \E st \in HAL_StatusTypeDef :
             /\ HAL_SPI_Receive(st)
             /\ sEEstatus' = IF st = HAL_OK THEN DevRead(dev, 1)[1] ELSE sEEstatus
             /\ IF st = HAL_BUSY THEN UNCHANGED pc ELSE Goto("L376")
       /\ UNCHANGED <<PAGESIZE, shareVars, req, result, wb, wp, rb, instruction, retval, out,
                      spiState, cs, calls, rets, txLog, nStandby, nWrdi>>
    \/ /\ At("L376")
       /\ IF WaitStandby_Again(sEEstatus) THEN Goto("L372") ELSE Goto("L381")
       /\ UNCHANGED <<PAGESIZE, shareVars, req, result, drvVars, hwVars, histVars>>
    \/ /\ At("L381")
       /\ EEPROM_CS_HIGH
       /\ Return
       /\ retval' = "0"    \* return 0; as text, like the status names
       /\ sEEstatus' = 0
       /\ nStandby' = nStandby + 1
       /\ UNCHANGED <<PAGESIZE, shareVars, req, result, wb, wp, rb, instruction, out,
                      spiState, calls, rets, txLog, allOk, lastHal, nWrdi>>

(* ----------------------- EEPROM_SPI_WritePage --------------------------- *)

\* Variant: the address bytes in the wrong order.
WritePage_Header_Swapped(WriteAddr) ==
    <<EEPROM_WRITE, WriteAddr % 256, (WriteAddr \div 256) % 256>>

\* Lines 61-63: the packet of 3 bytes; header[] is uint8_t.
WritePage_Header(WriteAddr) ==
    <<EEPROM_WRITE, (WriteAddr \div 256) % 256, WriteAddr % 256>>

\* Variant: every result but HAL_OK is tried again.
WritePage_Retry_NotOk(st) == st # HAL_OK

\* Line 74: the transmit is tried again after HAL_BUSY only.
WritePage_Retry(st) == st = HAL_BUSY

\* Variant: a transmit that ended neither ok nor in error leaves the status
\* pending.
WritePage_Return_Pending(st) ==
    IF st = HAL_ERROR THEN EEPROM_STATUS_ERROR
    ELSE IF st = HAL_OK THEN EEPROM_STATUS_COMPLETE
    ELSE EEPROM_STATUS_PENDING

\* Variant: every transmit that did not end ok is an error.
WritePage_Return_NotOk(st) ==
    IF st # HAL_OK THEN EEPROM_STATUS_ERROR ELSE EEPROM_STATUS_COMPLETE

\* Lines 90-94.
WritePage_Return(st) ==
    IF st = HAL_ERROR THEN EEPROM_STATUS_ERROR ELSE EEPROM_STATUS_COMPLETE

\* Line 48: while (eeprom_h->SPI->State != HAL_SPI_STATE_READY)
WaitsForReady(state) == state # HAL_SPI_STATE_READY

\* Variant: the write is not enabled, the header follows at once.
WritePage_AfterReady_NoWren == "L66"

\* Line 54, once the bus is ready: sEE_WriteEnable().
WritePage_AfterReady == "L54"

\* Variant: the standby-wait is left out, write-disable follows at once.
WritePage_AfterPayload_NoWait == "L88"

\* Line 85, after chip-select is released: the wait for the write cycle.
WritePage_AfterPayload == "L85"

EEPROM_SPI_WritePage ==
    \/ /\ At("L48")
       /\ IF WaitsForReady(spiState) THEN UNCHANGED pc
                                     ELSE Goto(WritePage_AfterReady)
       /\ UNCHANGED <<PAGESIZE, shareVars, req, result, drvVars, hwVars, histVars>>
    \/ /\ At("L54")
       /\ Call("L294", "L66")
       /\ UNCHANGED <<PAGESIZE, shareVars, req, result, drvVars, hwVars, histVars>>
    \/ /\ At("L66")
       /\ EEPROM_CS_LOW
       /\ Goto("L68")
       /\ UNCHANGED <<PAGESIZE, shareVars, req, result, drvVars, spiState, histVars>>
    \/ /\ At("L68")
       /\ instruction' = WritePage_Header(wp.WriteAddr)
       /\ Call("L393", "L71")
       /\ UNCHANGED <<PAGESIZE, shareVars, req, result, wb, wp, rb, sEEstatus, retval, out,
                      hwVars, histVars>>
    \/ /\ At("L71")
       /\ wp.i < TxAttempts
       /\ \E st \in HAL_StatusTypeDef :
             \E k \in Delivered(st, wp.NumByteToWrite) :
                /\ HAL_SPI_Transmit(Buf(wp.pBuffer, wp.NumByteToWrite), st, k)
                /\ txLog' = Append(txLog, st)
                /\ IF WritePage_Retry(st)
                   THEN /\ wp' = [wp EXCEPT !.spiTransmitStatus = st,
                                            !.i = (wp.i + 1) % 256]
                        /\ UNCHANGED pc
                   ELSE /\ wp' = [wp EXCEPT !.spiTransmitStatus = st]
                        /\ Goto("L82")
       /\ UNCHANGED <<PAGESIZE, shareVars, req, result, wb, rb, instruction, sEEstatus, retval,
                      out, spiState, cs, calls, rets, nStandby, nWrdi>>
    \/ /\ At("L71")
       /\ ~(wp.i < TxAttempts)
       /\ Goto("L82")
       /\ UNCHANGED <<PAGESIZE, shareVars, req, result, drvVars, hwVars, histVars>>
    \/ /\ At("L82")
       /\ EEPROM_CS_HIGH
       /\ Goto(WritePage_AfterPayload)
       /\ UNCHANGED <<PAGESIZE, shareVars, req, result, drvVars, spiState, histVars>>
    \/ /\ At("L85")
       /\ Call("L360", "L88")
       /\ UNCHANGED <<PAGESIZE, shareVars, req, result, drvVars, hwVars, histVars>>
    \/ /\ At("L88")
       /\ Call("L312", "L90")
       /\ UNCHANGED <<PAGESIZE, shareVars, req, result, drvVars, hwVars, histVars>>
    \/ /\ At("L90")
       /\ retval' = WritePage_Return(wp.spiTransmitStatus)
       /\ rets' = Append(rets, WritePage_Return(wp.spiTransmitStatus))
       /\ wp' = wpIdle
       /\ Return
       /\ UNCHANGED <<PAGESIZE, shareVars, req, result, wb, rb, instruction, sEEstatus, out,
                      hwVars, calls, txLog, allOk, lastHal, nStandby, nWrdi>>

(* ----------------------- EEPROM_SPI_ReadBuffer -------------------------- *)

\* Lines 234-236.
ReadBuffer_Header(ReadAddr) ==
    <<EEPROM_READ, (ReadAddr \div 256) % 256, ReadAddr % 256>>

\* Line 244: while (HAL_SPI_Receive(...) == HAL_BUSY)
ReadBuffer_Retry(st) == st = HAL_BUSY

\* Variant: a receive that ended in a hard error is reported.
ReadBuffer_Return_Checked(st) ==
    IF st = HAL_ERROR THEN EEPROM_STATUS_ERROR ELSE EEPROM_STATUS_COMPLETE

\* Line 251: return EEPROM_STATUS_COMPLETE; what the receive reported is not
\* looked at.
ReadBuffer_Return(st) == EEPROM_STATUS_COMPLETE

EEPROM_SPI_ReadBuffer ==
    \/ /\ At("L224")
       /\ IF WaitsForReady(spiState) THEN UNCHANGED pc ELSE Goto("L239")
       /\ UNCHANGED <<PAGESIZE, shareVars, req, result, drvVars, hwVars, histVars>>
    \/ /\ At("L239")
       /\ EEPROM_CS_LOW
       /\ Goto("L242")
       /\ UNCHANGED <<PAGESIZE, shareVars, req, result, drvVars, spiState, histVars>>
    \/ /\ At("L242")
       /\ instruction' = ReadBuffer_Header(rb.ReadAddr)
       /\ Call("L393", "L244")
       /\ UNCHANGED <<PAGESIZE, shareVars, req, result, wb, wp, rb, sEEstatus, retval, out,
                      hwVars, histVars>>
    \/ /\ At("L244")
       /\ \E st \in HAL_StatusTypeDef :
             /\ HAL_SPI_Receive(st)
             /\ out' = IF st = HAL_OK THEN DevRead(dev, rb.NumByteToRead) ELSE out
             /\ IF ReadBuffer_Retry(st) THEN UNCHANGED pc ELSE Goto("L249")
       /\ UNCHANGED <<PAGESIZE, shareVars, req, result, wb, wp, rb, instruction, sEEstatus,
                      retval, spiState, cs, calls, rets, txLog, nStandby, nWrdi>>
    \/ /\ At("L249")
       /\ EEPROM_CS_HIGH
       /\ Return
       /\ result' = ReadBuffer_Return(lastHal)
       /\ rb' = rbIdle
       /\ UNCHANGED <<PAGESIZE, shareVars, req, wb, wp, instruction, sEEstatus, retval, out,
                      spiState, histVars>>

(* ------------------------------ caller --------------------------------- *)

\* The requests the caller makes.
Addresses(P) == {0, P - 1, P, P + 7} \cup {UINT16 - 1 - d : d \in 0..MaxBack}
Lengths(P)   == 0..(3 * P - 1)

\* The caller writes its buffer: lines 107-119, 147-149 and 171.
WriteBuffer_Entry ==
    /\ pc = <<>>
    /\ MayEnter
    /\ req.op = NONE
    /\ \E A \in Addresses(PAGESIZE), L \in Lengths(PAGESIZE) :
          /\ mode = "concurrent" => (A = 0 /\ L <= ShortLen)
          /\ req' = [op |-> "write", A |-> A, L |-> L]
          /\ wb' = WriteBuffer_Locals(PAGESIZE, A, L)
          /\ pc' = <<WriteBuffer_Branch(WriteBuffer_Locals(PAGESIZE, A, L))>>
    /\ UNCHANGED <<PAGESIZE, shareVars, result, wp, rb, instruction, sEEstatus, retval, out,
                   hwVars, histVars>>

\* ... and, once the write has returned, reads the same range back.
ReadBuffer_Entry ==
    /\ pc = <<>>
    /\ MayEnter
    /\ req.op = "write"
    /\ req' = [req EXCEPT !.op = "read"]
    /\ rb' = [ReadAddr |-> req.A, NumByteToRead |-> req.L]
    /\ pc' = <<"L224">>
    /\ result' = NONE
    /\ UNCHANGED <<PAGESIZE, shareVars, wb, wp, instruction, sEEstatus, retval, out,
                   hwVars, histVars>>

\* The values the caller writes to the status register: no block protected,
\* or both block-protect bits set.
RegVals == {0, 12}

\* Instead of writing its buffer the caller sets the status register; for this
\* request req.A is regval.
WriteStatusRegister_Entry ==
    /\ pc = <<>>
    /\ MayEnter
    /\ req.op = NONE
    /\ \E regval \in RegVals :
          req' = [op |-> "wrsr", A |-> regval, L |-> 0]
    /\ pc' = <<"L336">>
    /\ UNCHANGED <<PAGESIZE, shareVars, result, drvVars, hwVars, histVars>>

(* --------------------------- specification ----------------------------- *)

EmptyMem == [x \in {} |-> Erased]

SecondIdle == [pc |-> "idle", instruction |-> <<>>, win |-> 0, foreign |-> "no"]

\* EEPROM_INIT has stored the handle; no operation has been called yet.
Start(modes) ==
    /\ mode \in modes
    /\ second = SecondIdle
    /\ PAGESIZE \in 1..MaxPage
    /\ spiState \in {HAL_SPI_STATE_RESET, HAL_SPI_STATE_READY, HAL_SPI_STATE_BUSY}
    /\ cs = "high"
    /\ pc = <<>>
    /\ wb = wbIdle
    /\ wp = wpIdle
    /\ rb = rbIdle
    /\ instruction = <<>>
    /\ sEEstatus = 0
    /\ retval = NONE
    /\ out = <<>>
    /\ dev = [mem |-> EmptyMem, wip |-> FALSE, wel |-> FALSE, win |-> <<>>,
              log |-> <<>>]
    /\ req = [op |-> NONE, A |-> 0, L |-> 0]
    /\ result = NONE
    /\ calls = <<>>
    /\ rets = <<>>
    /\ txLog = <<>>
    /\ allOk = TRUE
    /\ lastHal = NONE
    /\ nStandby = 0
    /\ nWrdi = 0

\* One caller, or callers that take turns.
Init == Start({"serial"})

Next ==
    \/ WriteBuffer_Entry
    \/ ReadBuffer_Entry
    \/ WriteStatusRegister_Entry
    \/ EEPROM_SPI_WriteBuffer
    \/ EEPROM_SPI_WritePage
    \/ EEPROM_SPI_ReadBuffer
    \/ EEPROM_SPI_SendInstruction
    \/ sEE_WriteEnable
    \/ sEE_WriteDisable
    \/ sEE_WriteStatusRegister
    \/ EEPROM_SPI_WaitStandbyState
    \/ DevWriteCycleDone
    \/ HAL_Ready

Spec == Init /\ [][Next]_vars

(* ---------------------- two callers, one handle ------------------------ *)

\* A second task calls EEPROM_SPI_ReadBuffer(buf, 0, 1) on the same handle.
\* Its parameters and its header live on its own stack; the handle, the
\* chip-select pin and the chip are the ones of the first caller.  second.win
\* is the number of the chip-select window it opened (that is, of the falling
\* edge its EEPROM_CS_LOW caused), second.foreign whether one of its transfers
\* was made outside that window.  The bytes it receives are not kept.

\* The chip-select window that is open now is the second caller's.
SecondsWindow == cs = "low" /\ second.win = Len(dev.log) + 1

\* A transfer of the second caller: inside its own window, inside a window
\* the first caller opened, or after chip-select was deasserted.
Second_Transfer ==
    IF second.foreign # "no" THEN second.foreign
    ELSE IF cs = "high" THEN "after"
    ELSE IF SecondsWindow THEN "no"
    ELSE "inside"

SecondAt(l)   == second.pc = l
SecondGoto(l) == second' = [second EXCEPT !.pc = l]

Second_Entry ==
    /\ SecondAt("idle")
    /\ mode = "serial" => pc = <<>>
    /\ SecondGoto("L224")
    /\ UNCHANGED <<PAGESIZE, mode, pc, req, result, drvVars, hwVars, histVars>>

Second_ReadBuffer ==
    \/ /\ SecondAt("L224")
       /\ IF WaitsForReady(spiState) THEN UNCHANGED second ELSE SecondGoto("L239")
       /\ UNCHANGED <<PAGESIZE, mode, pc, req, result, drvVars, hwVars, histVars>>
    \/ /\ SecondAt("L239")
       /\ EEPROM_CS_LOW
       /\ second' = [second EXCEPT
                        !.pc = "L242",
                        !.win = IF cs = "high" THEN Len(dev.log) + 1 ELSE @]
       /\ UNCHANGED <<PAGESIZE, mode, pc, req, result, drvVars, spiState, histVars>>
    \/ /\ SecondAt("L242")
       /\ second' = [second EXCEPT !.pc = "L393",
                                   !.instruction = ReadBuffer_Header(0)]
       /\ UNCHANGED <<PAGESIZE, mode, pc, req, result, drvVars, hwVars, histVars>>
    \/ /\ SecondAt("L244")
       /\ \E st \in HAL_StatusTypeDef :
             /\ HAL_SPI_Receive(st)
             /\ second' = [second EXCEPT
                              !.pc = IF ReadBuffer_Retry(st) THEN @ ELSE "L249",
                              !.foreign = Second_Transfer]
       /\ UNCHANGED <<PAGESIZE, mode, pc, req, result, drvVars, spiState, cs,
                      calls, rets, txLog, nStandby, nWrdi>>
    \/ /\ SecondAt("L249")
       /\ EEPROM_CS_HIGH
       /\ SecondGoto("done")
       /\ UNCHANGED <<PAGESIZE, mode, pc, req, result, drvVars, spiState, histVars>>

Second_SendInstruction ==
    \/ /\ SecondAt("L393")
       /\ IF SendInstruction_Waits(spiState) THEN UNCHANGED second
                                             ELSE SecondGoto("L397")
       /\ UNCHANGED <<PAGESIZE, mode, pc, req, result, drvVars, hwVars, histVars>>
    \/ /\ SecondAt("L397")
       /\ \E st \in HAL_StatusTypeDef :
             /\ HAL_SPI_Transmit(second.instruction, st,
                                 IF st = HAL_OK THEN Len(second.instruction) ELSE 0)
             /\ second' = [second EXCEPT
                              !.pc = IF SendInstruction_Fails(st)
                                     THEN "Error_Handler" ELSE "L244",
                              !.foreign = Second_Transfer]
       /\ UNCHANGED <<PAGESIZE, mode, pc, req, result, drvVars, spiState, cs,
                      calls, rets, txLog, nStandby, nWrdi>>

\* Both ways of using the driver from two tasks, for one page size.
InitShared == Start({"serial", "concurrent"}) /\ PAGESIZE = LivePage

NextShared ==
    \/ Next
    \/ Second_Entry
    \/ Second_ReadBuffer
    \/ Second_SendInstruction

SharedSpec == InitShared /\ [][NextShared]_vars

(* ------------------------------ claims --------------------------------- *)

\* EEPROM_SPI_WriteBuffer has returned to the caller (and nothing was called
\* since).
WriteReturned == pc = <<>> /\ req.op = "write"

\* The last EEPROM_SPI_WritePage call made has returned.
PageReturned == Len(calls) > 0 /\ Len(rets) = Len(calls)

CallEnd(c) == c.addr + c.len

\* C1: when every sub-write succeeded and A + L lies inside the 16-bit address
\* space, each buffer index k in [0, L) is transferred by exactly one
\* EEPROM_SPI_WritePage call, to device address A + k (the buffer pointer in
\* lockstep with the address), and the calls are strictly ascending and
\* contiguous: together they cover exactly [A, A+L).
C1_ExactCover ==
    (WriteReturned /\ result = EEPROM_STATUS_COMPLETE /\ req.A + req.L < UINT16) =>
        /\ \A k \in 0..(req.L - 1) :
              Cardinality({i \in 1..Len(calls) :
                              calls[i].buf <= k /\ k < calls[i].buf + calls[i].len}) = 1
        /\ \A i \in 1..Len(calls) :
              /\ calls[i].addr = req.A + calls[i].buf
              /\ calls[i].buf + calls[i].len <= req.L
        /\ \A i \in 1..(Len(calls) - 1) :
              /\ calls[i].addr < calls[i + 1].addr
              /\ calls[i + 1].addr = CallEnd(calls[i])
        /\ Len(calls) > 0
        /\ calls[1].addr = req.A
        /\ CallEnd(calls[Len(calls)]) = req.A + req.L

\* A write that starts inside a page and needed four sub-writes has returned
\* Complete.
C1_Witness ==
    /\ WriteReturned
    /\ result = EEPROM_STATUS_COMPLETE
    /\ req.A + req.L < UINT16
    /\ req.A % PAGESIZE # 0
    /\ Len(calls) = 4

InOnePage(c) == c.len <= PAGESIZE /\ (c.addr % PAGESIZE) + c.len <= PAGESIZE

\* C2 as stated: every sub-write, for any page size, address and length, is at
\* most one page long and does not cross a multiple of the page size.
C2_Original == \A i \in 1..Len(calls) : InOnePage(calls[i])

\* C2 amended: every sub-write is at most one page long and stays inside one
\* page whenever the request ends inside the address space (A + L <= 2^16) or
\* the page size divides 2^16.
C2_InOnePage ==
    (req.A + req.L <= UINT16 \/ UINT16 % PAGESIZE = 0) =>
        \A i \in 1..Len(calls) : InOnePage(calls[i])

\* A sub-write that ends exactly on a page boundary, after one that filled the
\* rest of the first page.
C2_Witness ==
    /\ req.A + req.L <= UINT16
    /\ req.A % PAGESIZE # 0
    /\ Len(calls) >= 2
    /\ calls[1].len < PAGESIZE
    /\ calls[2].len = PAGESIZE
    /\ calls[2].addr % PAGESIZE = 0

\* C3: no EEPROM_SPI_WritePage call has NumByteToWrite = 0.
C3_NoZeroLength == \A i \in 1..Len(calls) : calls[i].len > 0

\* C4: once a sub-write has returned a status other than Complete no further
\* sub-write is made: EEPROM_SPI_WriteBuffer is at the check that follows the
\* call or has returned, and what it returns is Error.
C4_StopsAtFirstFailure ==
    \A i \in 1..Len(rets) :
        rets[i] # EEPROM_STATUS_COMPLETE =>
            /\ Len(calls) = i
            /\ req.op = "write" =>
                  \/ pc = <<>> /\ result = EEPROM_STATUS_ERROR
                  \/ Len(pc) = 1 /\ Head(pc) \in WriteBuffer_Checks

\* The second sub-write failed and bytes of the request were never issued.
C4_Witness ==
    /\ WriteReturned
    /\ result = EEPROM_STATUS_ERROR
    /\ Len(calls) = 2
    /\ rets = <<EEPROM_STATUS_COMPLETE, EEPROM_STATUS_ERROR>>
    /\ calls[2].buf + calls[2].len < req.L

\* C5: EEPROM_SPI_WriteBuffer returns Complete exactly when every sub-write it
\* made returned Complete, and Error otherwise; never Pending.
C5_ResultIsConjunction ==
    WriteReturned =>
        /\ Len(rets) = Len(calls)
        /\ result \in {EEPROM_STATUS_COMPLETE, EEPROM_STATUS_ERROR}
        /\ result = EEPROM_STATUS_COMPLETE <=>
              \A i \in 1..Len(rets) : rets[i] = EEPROM_STATUS_COMPLETE

\* Three sub-writes returned Complete although not every payload transmit
\* ended ok, and so did the whole write.
C5_Witness ==
    /\ WriteReturned
    /\ result = EEPROM_STATUS_COMPLETE
    /\ Len(rets) = 3
    /\ ~allOk

\* The cells of the request.
Range == {U16(req.A + k) : k \in 0..(req.L - 1)}

ReadReturned == pc = <<>> /\ req.op = "read"

\* C6: with every transfer succeeding, writing the buffer to [A, A+L) of a chip
\* that wraps inside a page and reading the range back returns the buffer, and
\* no cell outside the range is changed.
C6_RoundTrip ==
    (ReadReturned /\ allOk /\ req.A + req.L <= UINT16) =>
        /\ out = Buf(0, req.L)
        /\ DOMAIN dev.mem \subseteq Range
        /\ result = EEPROM_STATUS_COMPLETE

\* 3P-1 bytes written from P+7, inside a page, were read back.
C6_Witness ==
    /\ ReadReturned
    /\ allOk
    /\ req.A = PAGESIZE + 7
    /\ req.A % PAGESIZE # 0
    /\ req.L = 3 * PAGESIZE - 1
    /\ Len(out) = req.L

\* The splitting algorithm as specified: a page-aligned request of at most one
\* page is one sub-write; a longer one is floor(L/P) full pages and then the
\* remainder if it is not zero.
SplitAligned(P, A, L) ==
    IF L <= P THEN <<[addr |-> A, len |-> L]>>
    ELSE [i \in 1..(L \div P) |-> [addr |-> U16(A + (i - 1) * P), len |-> P]]
         \o (IF L % P # 0
             THEN <<[addr |-> U16(A + (L \div P) * P), len |-> L % P]>>
             ELSE <<>>)

\* A request that starts inside a page and fits in it is one sub-write; else
\* the rest of the page, then the aligned expansion of what is left.
SplitSpecified(P, A, L) ==
    IF A % P = 0 THEN SplitAligned(P, A, L)
    ELSE IF L <= P - (A % P) THEN <<[addr |-> A, len |-> L]>>
    ELSE <<[addr |-> A, len |-> P - (A % P)]>>
         \o SplitAligned(P, U16(A + P - (A % P)), L - (P - (A % P)))

\* C7: the (address, length) list of the sub-writes of a write that returned
\* Complete is the list of the specified splitting algorithm.
C7_SplitAsSpecified ==
    (WriteReturned /\ result = EEPROM_STATUS_COMPLETE) =>
        [i \in 1..Len(calls) |-> [addr |-> calls[i].addr, len |-> calls[i].len]]
            = SplitSpecified(PAGESIZE, req.A, req.L)

\* C8: write cycles are not pipelined: while sub-write k+1 is under way (from
\* its call on, so before any of its bus activity) the standby-waits and the
\* write-disable commands of sub-writes 1..k are finished.
C8_NoPipelining ==
    Len(calls) > 0 =>
        /\ nStandby >= Len(calls) - 1
        /\ nWrdi >= Len(calls) - 1
        /\ nWrdi <= nStandby

\* The payload of the third sub-write is about to be sent.
C8_Witness ==
    /\ Len(calls) = 3
    /\ At("L71")
    /\ cs = "low"
    /\ nStandby = 2
    /\ nWrdi = 2

AllBusy(n) == [j \in 1..n |-> HAL_BUSY]

\* C9: when all 5 payload transmits reported busy, EEPROM_SPI_WritePage
\* reports a failure (not Complete), and there is no 6th transmit.
C9_BusyExhaustedFails ==
    /\ Len(txLog) <= TxAttempts
    /\ (PageReturned /\ txLog = AllBusy(TxAttempts)) =>
          rets[Len(rets)] # EEPROM_STATUS_COMPLETE

\* The retry loop of the sub-write under way is over.
LoopOver == PageReturned \/ (pc # <<>> /\ Head(pc) \in {"L82", "L85", "L88", "L90"})

\* C10: the payload is transmitted at least once and at most 5 times, again
\* only after a busy result, the first other result ends the loop; busy four
\* times and then ok makes the sub-write return Complete.
C10_RetryOnlyOnBusy ==
    /\ Len(txLog) <= TxAttempts
    /\ \A j \in 1..(Len(txLog) - 1) : txLog[j] = HAL_BUSY
    /\ LoopOver =>
          /\ Len(txLog) >= 1
          /\ txLog[Len(txLog)] # HAL_BUSY \/ Len(txLog) = TxAttempts
    /\ (PageReturned /\ txLog = AllBusy(TxAttempts - 1) \o <<HAL_OK>>) =>
          rets[Len(rets)] = EEPROM_STATUS_COMPLETE

\* Busy on the first four attempts, ok on the fifth, and the sub-write has
\* returned.
C10_Witness ==
    /\ PageReturned
    /\ txLog = AllBusy(TxAttempts - 1) \o <<HAL_OK>>
    /\ rets[Len(rets)] = EEPROM_STATUS_COMPLETE

\* The fatal handler has been entered.
Fatal == At("Error_Handler")

\* The chip-select windows the chip has seen since the write returned.
ReadWindows == {i \in 1..Len(dev.log) : i > 4 * Len(calls)}

\* C11: EEPROM_SPI_ReadBuffer reports Complete whenever it returns, whatever
\* the last receive reported; it leaves the receive loop only on a result
\* other than busy and stays in it after busy; and every chip-select window of
\* the read carries the read opcode: no write-enable, no memory write.
C11_ReadAlwaysComplete ==
    /\ ReadReturned => result = EEPROM_STATUS_COMPLETE
    /\ (req.op = "read" /\ At("L249")) => lastHal # HAL_BUSY
    /\ (req.op = "read" /\ lastHal = HAL_BUSY /\ ~Fatal) => At("L244")
    /\ req.op = "read" =>
          /\ dev.win = <<>> \/ dev.win[1] = EEPROM_READ
          /\ \A i \in ReadWindows : dev.log[i][1] = EEPROM_READ

\* A read returned after its receive had ended in a hard error.
C11_Witness ==
    /\ ReadReturned
    /\ lastHal = HAL_ERROR
    /\ ReadWindows # {}

\* The payload part of a write window: the bytes of the call's buffer, once
\* for every attempt that reached the wire.
PayloadOf(w, c) ==
    \A j \in 4..Len(w) :
       c.len > 0 /\ w[j] = Buf(c.buf, c.len)[((j - 4) % c.len) + 1]

\* The four chip-select windows of the i-th EEPROM_SPI_WritePage call.
PageWindows(i) ==
    /\ dev.log[(4 * i) - 3] = <<EEPROM_WREN>>
    /\ LET w == dev.log[(4 * i) - 2]
       IN  /\ Len(w) >= 3
           /\ SubSeq(w, 1, 3) = WritePage_Header(calls[i].addr)
           /\ PayloadOf(w, calls[i])
    /\ dev.log[(4 * i) - 1] = <<EEPROM_RDSR>>
    /\ dev.log[4 * i] = <<EEPROM_WRDI>>

\* EEPROM_SPI_WritePage is executing.
InWritePage == Len(calls) > Len(rets)

\* C12: every EEPROM_SPI_WritePage call that has returned left exactly four
\* chip-select windows on the bus, in this order: write-enable alone, the write
\* header followed by the payload attempts, read-status (the standby-wait),
\* write-disable alone; nothing was sent before the bus was ready; and when
\* the call returns write-disable is the last window, whatever the payload
\* transmit reported.
C12_StepsInOrder ==
    /\ req.op \in {"write", "read"} =>
          /\ Len(dev.log) >= 4 * Len(rets)
          /\ \A i \in 1..Len(rets) : PageWindows(i)
    /\ (InWritePage /\ ~At("L48")) => spiState = HAL_SPI_STATE_READY
    /\ (InWritePage /\ At("L48")) => Len(dev.log) = 4 * Len(rets) /\ cs = "high"
    /\ (PageReturned /\ req.op = "write") => Len(dev.log) = 4 * Len(rets)

\* A call returned after all its payload attempts had been refused as busy.
C12_Witness ==
    /\ PageReturned
    /\ txLog = AllBusy(TxAttempts)
    /\ dev.log[Len(dev.log)] = <<EEPROM_WRDI>>

\* What the last payload transmit of the current call reported.
LastTransmit == txLog[Len(txLog)]

\* C13: EEPROM_SPI_WritePage returns Error if and only if its last payload
\* transmit reported HAL_ERROR; after HAL_OK, HAL_BUSY and HAL_TIMEOUT it
\* returns Complete.
C13_ErrorIffHardError ==
    PageReturned =>
       /\ txLog # <<>>
       /\ LastTransmit = HAL_ERROR =>
             rets[Len(rets)] = EEPROM_STATUS_ERROR
       /\ LastTransmit \in {HAL_OK, HAL_BUSY, HAL_TIMEOUT} =>
             rets[Len(rets)] = EEPROM_STATUS_COMPLETE

\* A call returned Complete although its last transmit had timed out.
C13_Witness ==
    /\ PageReturned
    /\ LastTransmit = HAL_TIMEOUT
    /\ rets[Len(rets)] = EEPROM_STATUS_COMPLETE

\* C14: EEPROM_SPI_WaitStandbyState leaves its poll loop only on a status
\* byte that a successful receive delivered and that has WIP clear: when the
\* loop is left the last receive has reported HAL_OK.
C14_LeavesOnReceivedStatus ==
    At("L381") => /\ lastHal = HAL_OK
                  /\ ~WaitStandby_Again(sEEstatus)

\* C15: the standby-wait has no way out but a clear WIP bit: with the chip
\* reporting WIP set in every status byte the poll loop is never left, so it
\* is left only once the chip's write cycle has ended.
C15_LeftOnlyWhenIdle ==
    At("L381") => ~dev.wip

(* ------------------------------ progress -------------------------------- *)

\* The steps of the driver itself, as opposed to those of its caller and of
\* the hardware.
Driver ==
    \/ EEPROM_SPI_WriteBuffer
    \/ EEPROM_SPI_WritePage
    \/ EEPROM_SPI_ReadBuffer
    \/ EEPROM_SPI_SendInstruction
    \/ sEE_WriteEnable
    \/ sEE_WriteDisable
    \/ sEE_WriteStatusRegister
    \/ EEPROM_SPI_WaitStandbyState

\* The processor keeps executing the driver; a polling loop whose condition
\* can change does not see the same answer forever (the bus gets ready, a
\* transfer reports something other than busy at last); the chip ends every
\* write cycle it has begun.
Fairness ==
    /\ WF_vars(Driver)
    /\ WF_vars(HAL_Ready)
    /\ WF_vars(DevWriteCycleDone)

\* Progress is checked for one page size, with every address and length of
\* the caller.
LiveInit == Init /\ PAGESIZE = LivePage

LiveSpec == LiveInit /\ [][Next]_vars /\ Fairness

\* A call is active / has come to its end: it returned, or a failed command
\* transmit has taken it into the fatal handler.
Active == pc # <<>>
Ended  == pc = <<>> \/ Fatal

\* The standby-wait is polling and its last receive did not deliver a byte.
PollStarved == (At("L372") \/ At("L376")) /\ lastHal # HAL_OK

\* C16 as stated: with the bus getting ready, every receive ending non-busy
\* at last, no command transmit failing and the chip ending its write cycles,
\* every call returns.
C16_Original == Active ~> Ended

\* C16: the same, for runs in which the status receive of the standby-wait
\* does not fail forever: again and again it reports HAL_OK.
C16_Terminates == ([]<>(~PollStarved)) => (Active ~> Ended)

\* Write and read-back have both returned after a standby-wait that had to
\* repeat a receive.
C16_Witness ==
    /\ ReadReturned
    /\ ~allOk
    /\ nStandby > 0

(* ----------------------------- chip-select ------------------------------ *)

Opcodes == {EEPROM_WREN, EEPROM_WRDI, EEPROM_RDSR, EEPROM_READ, EEPROM_WRITE,
            EEPROM_WRSR}

\* The lines at which a HAL transfer is made: the instruction transmit, the
\* payload transmit, the status receive, the data receive.
TransferLines == {"L397", "L71", "L372", "L244"}

\* Chip-select is low at every transfer; an instruction is sent as the first
\* bytes of a window and begins with an opcode; every window the chip has
\* seen begins with an opcode; chip-select is high when no call is active.
Bracketed ==
    /\ (Active /\ Head(pc) \in TransferLines) => cs = "low"
    /\ At("L397") => /\ dev.win = <<>>
                     /\ instruction # <<>>
                     /\ instruction[1] \in Opcodes
    /\ \A i \in 1..Len(dev.log) :
          dev.log[i] # <<>> /\ dev.log[i][1] \in Opcodes
    /\ pc = <<>> => cs = "high"

\* A function other than EEPROM_SPI_SendInstruction returns.
Returns == Len(pc') < Len(pc) /\ ~At("L397")

\* C17: chip-select brackets every command: every transmit and receive is
\* made with chip-select low, each opcode is the first byte of its own
\* window, and chip-select is high whenever one of the operations returns.
C17_ChipSelectBrackets == []Bracketed /\ [][Returns => cs' = "high"]_vars

\* sEE_WriteStatusRegister has returned: three windows, chip-select high.
C17_Witness ==
    /\ pc = <<>>
    /\ req.op = "wrsr"
    /\ cs = "high"
    /\ Len(dev.log) = 3
    /\ dev.log[2] = WriteStatusRegister_Command(req.A)

\* C18: EEPROM_SPI_SendInstruction starts its transmit only while the bus
\* state is ready, whatever the state was when it was entered.
C18_TransmitsOnlyWhenReady ==
    [][(At("L397") /\ pc' # pc) => spiState = HAL_SPI_STATE_READY]_vars

(* ------------------------ transport failures --------------------------- *)

\* The transmit of EEPROM_SPI_SendInstruction is made.
InstructionSent == At("L397") /\ pc' # pc

\* C19: whenever the transmit inside EEPROM_SPI_SendInstruction reports
\* anything other than ok the fatal handler is entered (and only then); a call
\* that entered it hands no result to the caller; and when
\* EEPROM_SPI_WriteBuffer returns Error, the last payload transmit of its last
\* EEPROM_SPI_WritePage call has reported HAL_ERROR.
C19_FailureIsFatal ==
    /\ [][InstructionSent =>
             (lastHal' # HAL_OK <=> Head(pc') = "Error_Handler")]_vars
    /\ [](Fatal => result = NONE)
    /\ []((WriteReturned /\ result = EEPROM_STATUS_ERROR) =>
             (PageReturned /\ LastTransmit = HAL_ERROR))

\* The transmit of a write header timed out: the fatal handler was entered
\* inside EEPROM_SPI_WritePage.
C19_Witness ==
    /\ Fatal
    /\ lastHal = HAL_TIMEOUT
    /\ instruction = WritePage_Header(wp.WriteAddr)
    /\ InWritePage

(* ----------------------------- concurrency ----------------------------- *)

\* The first caller is about to make a transfer with chip-select high or
\* inside a window the second caller opened.
FirstForeign ==
    /\ Active
    /\ Head(pc) \in TransferLines
    /\ cs = "high" \/ SecondsWindow

\* C20: callers that serialize their calls never transfer a byte inside each
\* other's chip-select window or with chip-select deasserted.
C20_SerializedIsClean ==
    mode = "serial" => (second.foreign = "no" /\ ~FirstForeign)

\* C20, the other half: without serialization the second caller has sent its
\* read header inside the window EEPROM_SPI_WritePage had opened for its write
\* header (the chip takes it for payload)...
C20_Witness ==
    /\ mode = "concurrent"
    /\ second.foreign = "inside"
    /\ second.pc = "L244"
    /\ InWritePage
    /\ dev.win = WritePage_Header(wp.WriteAddr) \o ReadBuffer_Header(0)

\* ... and, in another run, with chip-select high: one of the first caller's
\* EEPROM_CS_HIGH calls came between the second caller's EEPROM_CS_LOW and its
\* transfer.
C20_WitnessAfter ==
    /\ mode = "concurrent"
    /\ second.foreign = "after"
    /\ ReadReturned

=============================================================================
